---- MODULE Spec2Model ----
(***************************************************************************)
(* Model of the ic-pocket-pro inventory store: the relational schema with  *)
(* its two triggers (auto_assign_pouch, update_stock_on_usage), the        *)
(* foreign-key actions of the schema, and the add-item dialog's submit     *)
(* handler.  Row ids (UUIDs) are modelled by fresh naturals drawn from a   *)
(* per-table counter; a pouch row is identified by its pouch_number.       *)
(***************************************************************************)
EXTENDS Integers, FiniteSets, Sequences, Bags, TLC

VARIABLES
  categories,        \* ids of the rows of public.categories
  category_name,     \* id of each row of public.categories -> its name
  category_seq,      \* number of category ids issued so far
  pouches,           \* pouch_number of each row of public.pouches
  pouch_seq,         \* last value issued by the pouch_number SERIAL sequence
  inventory_items,   \* rows of public.inventory_items
  item_seq,          \* number of item ids issued so far
  stock_movements,   \* rows of public.stock_movements
  movement_seq,      \* number of movement ids issued so far
  repair_jobs,       \* job_number of each row of public.repair_jobs
  job_seq,           \* last value issued by the job_number SERIAL sequence
  job_items,         \* rows of public.job_items
  job_item_seq,      \* number of job_item ids issued so far
  txs,               \* bag of the transactions in flight (concurrent specifications)
  pending,           \* requests issued by clients and not yet started
  last_outcome,      \* how the transaction that ended last ended
  toast,             \* last notification raised through the toast hook
  item_dialog,       \* state of the add-item dialog: open, formData
  category_dialog,   \* state of the category dialog: dialogOpen, editingCategory, formData
  table,             \* state of the InventoryTable component
  first_table,       \* history: the InventoryTable state once its rows were fetched,
                     \* and whether a filter has narrowed the rows shown since
  pouch_numbers_issued, \* history: pouch_number issued -> whether its row was kept
  job_numbers_issued,   \* history: job_number issued -> whether its row was kept
  created_stock,     \* history: item id -> current_stock the row was inserted with
  alloc_run          \* history: pouch ids bound by the insertions with pouch unset
                     \* made one after another since the pouch set was empty

vars == <<categories, category_name, category_seq, pouches, pouch_seq, pouch_numbers_issued, inventory_items, item_seq,
          stock_movements, movement_seq, repair_jobs, job_seq, job_numbers_issued, job_items,
          job_item_seq, txs, pending, last_outcome, toast, item_dialog, category_dialog, table, first_table, created_stock,
          alloc_run>>

----------------------------------------------------------------------------
\* Bounds of the model.
MaxItems == 12        \* item rows inserted in the allocator specifications
MaxLedgerItems == 2   \* item rows inserted in the ledger specifications
MaxJobs == 1          \* repair jobs created
MaxUsages == 2        \* job_items rows inserted
MaxQty == 2           \* largest quantity_used / initial stock entered
MaxCalls == 3         \* create_job_item calls fired together
MaxInFlight == 3      \* transactions in flight at once
PreFill == 9          \* item rows already allocated when a pouch specification starts
MaxNewItems == 2      \* item rows inserted in the pouch specification
MaxInactive == 1      \* item rows deactivated in the pouch specification
MaxDeleted == 1       \* item rows deleted in the pouch specification
BurstCalls == 11      \* K: create_item calls fired together (K > 10)
RaceCalls == 3        \* create_item calls fired together at a nearly full pouch
MaxPouchNumber == 6   \* pouch numbers issued in the numbering specification
MaxJobNumber == 3     \* job numbers issued in the numbering specification
MaxSeedEdited == 1    \* default categories the categories manager edits or deletes
MaxNewCategories == 1 \* categories created through the categories manager
MaxFetched == 2       \* rows the inventory table fetches

\* Program constants.
PouchCapacity == 10   \* HAVING COUNT(i.id) < 10
SeedPouches == 3      \* sample pouches inserted by the migration
SeedCategories == 6   \* default categories inserted by the migration
NULL == 0             \* SQL NULL of an id column (ids are >= 1)
NULL_TEXT == "<null>" \* SQL NULL of a text column
EMPTY_ID == -1        \* the empty string '' sent as an id (no row has it)

----------------------------------------------------------------------------
\* Helpers.
Min(S) == CHOOSE x \in S : \A y \in S : x <= y

RECURSIVE SumQty(_)
SumQty(S) == IF S = {} THEN 0
             ELSE LET r == CHOOSE x \in S : TRUE
                  IN r.quantity + SumQty(S \ {r})

\* The quantities of the job_items rows in S, summed.
RECURSIVE SumUsed(_)
SumUsed(S) == IF S = {} THEN 0
              ELSE LET r == CHOOSE x \in S : TRUE
                   IN r.quantity_used + SumUsed(S \ {r})

\* COUNT(i.id) of the LEFT JOIN for pouch p: every item row bound to p.
Occupancy(p, items) == Cardinality({i \in items : i.pouch_id = p})

\* Mutant: the new pouch numbered one past the highest number in the table.
AssignFound_MaxPlusOne(found, ps, seq) ==
  LET n == IF ps = {} THEN 1 ELSE (CHOOSE x \in ps : \A y \in ps : x >= y) + 1
  IN IF found = NULL
     THEN [pouch_id |-> n, pouches |-> ps \cup {n}, seq |-> seq]
     ELSE [pouch_id |-> found, pouches |-> ps, seq |-> seq]

\* Mutant: the capacity test off by one (COUNT(i.id) <= 10).
HasSpace_OffByOne(p, items) == Occupancy(p, items) <= PouchCapacity

\* HAVING COUNT(i.id) < 10
HasSpace(p, items) == Occupancy(p, items) < PouchCapacity

\* Mutant: ORDER BY p.pouch_number DESC.
FirstPouch_Desc(S) == CHOOSE x \in S : \A y \in S : x >= y

\* ORDER BY p.pouch_number ASC LIMIT 1
FirstPouch(S) == Min(S)

\* The SELECT of auto_assign_pouch over the rows visible to it:
\* the pouch it finds, or NULL when none has space.
SelectAvailablePouch(ps, items) ==
  LET avail == {p \in ps : HasSpace(p, items)}
  IN IF avail = {} THEN NULL ELSE FirstPouch(avail)

\* The rest of auto_assign_pouch once its SELECT found `found`: the pouch it
\* binds, and the pouch table and sequence after its INSERT INTO pouches.
AssignFound(found, ps, seq) ==
  IF found = NULL
  THEN [pouch_id |-> seq + 1, pouches |-> ps \cup {seq + 1}, seq |-> seq + 1]
  ELSE [pouch_id |-> found, pouches |-> ps, seq |-> seq]

\* Mutant: the trigger allocates whether or not a pouch was supplied.
auto_assign_pouch_Always(new_pouch_id, ps, seq, items) ==
  AssignFound(SelectAvailablePouch(ps, items), ps, seq)

\* Trigger auto_assign_pouch run against pouch rows ps, sequence value seq and
\* item rows items, for a row whose pouch_id is new_pouch_id.  Yields the
\* pouch_id of the row to insert, and the pouch table and sequence afterwards.
auto_assign_pouch(new_pouch_id, ps, seq, items) ==
  IF new_pouch_id = NULL
  THEN AssignFound(SelectAvailablePouch(ps, items), ps, seq)
  ELSE [pouch_id |-> new_pouch_id, pouches |-> ps, seq |-> seq]

\* A row of inventory_items with the column defaults of the schema.
ItemRow(id, name, category_id, pouch_id, sku, stock) ==
  [id |-> id, name |-> name, category_id |-> category_id, pouch_id |-> pouch_id,
   sku |-> sku, current_stock |-> stock, is_active |-> TRUE]

\* Constraints the schema checks on an inventory_items row: the foreign keys
\* to categories and pouches, and UNIQUE(sku) (NULLs never collide).
ItemRowAccepted(row, cats, ps, items) ==
  /\ row.category_id = NULL \/ row.category_id \in cats
  /\ row.pouch_id = NULL \/ row.pouch_id \in ps
  /\ row.sku = NULL_TEXT \/ \A i \in items : i.sku # row.sku

\* String.prototype.trim on a text given as a sequence of characters.
RECURSIVE TrimStart(_)
TrimStart(s) == IF s # <<>> /\ Head(s) = " " THEN TrimStart(Tail(s)) ELSE s

RECURSIVE TrimEnd(_)
TrimEnd(s) == IF s # <<>> /\ s[Len(s)] = " " THEN TrimEnd(SubSeq(s, 1, Len(s) - 1)) ELSE s

\* Mutant: the text tested as typed.
Trim_None(s) == s

Trim(s) == TrimEnd(TrimStart(s))

\* A row of stock_movements.
MovementRow(id, item_id, movement_type, quantity, reason, reference_id, notes) ==
  [id |-> id, item_id |-> item_id, movement_type |-> movement_type,
   quantity |-> quantity, reason |-> reason, reference_id |-> reference_id,
   notes |-> notes]

\* Mutant: item_id is not checked against inventory_items.
MovementRowAccepted_Unchecked(row, items) == TRUE

\* Constraints the schema checks on a stock_movements row: item_id is a NOT
\* NULL uuid that REFERENCES inventory_items(id).
MovementRowAccepted(row, items) == \E i \in items : i.id = row.item_id

\* The movement the add-item dialog sends after inserting an item with stock.
InitialStockMovement(id, stock) ==
  MovementRow(id, EMPTY_ID, "IN", stock, "Initial stock", NULL_TEXT,
              "Item added to inventory")

\* NEW.job_id::TEXT
UuidToText(id) == ToString(id)

\* Mutant: the decrement dropped by one unit.
StockAfterUsage_Short(stock, quantity_used) == stock - quantity_used + 1

\* SET current_stock = current_stock - NEW.quantity_used
StockAfterUsage(stock, quantity_used) == stock - quantity_used

\* The row the trigger update_stock_on_usage appends for job_items row new.
UsageMovement(id, new) ==
  MovementRow(id, new.item_id, "OUT", new.quantity_used, "Used in repair job",
              UuidToText(new.job_id), NULL_TEXT)

\* UPDATE inventory_items ... WHERE id = NEW.item_id, on item rows items.
ItemsAfterUsage(items, new) ==
  {IF i.id = new.item_id
   THEN [i EXCEPT !.current_stock = StockAfterUsage(i.current_stock, new.quantity_used)]
   ELSE i : i \in items}

\* Mutant: the usage is refused when the item's stock does not cover it.
JobItemRowAccepted_StockChecked(row, jobs, items) ==
  /\ row.job_id \in jobs
  /\ \E i \in items : i.id = row.item_id /\ i.current_stock >= row.quantity_used

\* Constraints the schema checks on a job_items row: both foreign keys.
JobItemRowAccepted(row, jobs, items) ==
  /\ row.job_id \in jobs
  /\ \E i \in items : i.id = row.item_id

\* String.prototype.toLowerCase, over the letters the model uses.
LowerChar(c) == IF c = "A" THEN "a" ELSE IF c = "B" THEN "b" ELSE c

ToLowerCase(s) == [k \in 1..Len(s) |-> LowerChar(s[k])]

\* String.prototype.includes
Includes(s, q) ==
  \E k \in 0..(Len(s) - Len(q)) : SubSeq(s, k + 1, k + Len(q)) = q

\* field?.toLowerCase().includes(q.toLowerCase()) for a nullable text column,
\* held as the empty set when NULL and as {text} otherwise.
OptIncludes(field, q) ==
  \E s \in field : Includes(ToLowerCase(s), ToLowerCase(q))

\* The search test of filterItems.
MatchesSearch(item, q) ==
  \/ Includes(ToLowerCase(item.name), ToLowerCase(q))
  \/ OptIncludes(item.description, q)
  \/ OptIncludes(item.sku, q)
  \/ OptIncludes(item.supplier, q)

\* item.categories?.name === categoryFilter; categories is the joined row,
\* held as the empty set when the item has no category and as {name} otherwise
\* (the name is compared whole, so it is kept as a string).
InCategory(item, categoryFilter) == item.categories = {categoryFilter}

\* item.current_stock <= item.min_stock_level
IsLow(item) == item.current_stock <= item.min_stock_level

\* Mutant: the out-of-stock test takes every stock that is not positive.
IsOut_NotPositive(item) == item.current_stock <= 0

\* item.current_stock === 0
IsOut(item) == item.current_stock = 0

\* Mutant: every stock that is not positive is labelled out of stock.
getStockStatus_NotPositive(current, min) ==
  IF current <= 0 THEN [label |-> "Out of Stock", variant |-> "destructive"]
  ELSE IF current <= min THEN [label |-> "Low Stock", variant |-> "warning"]
  ELSE [label |-> "In Stock", variant |-> "success"]

\* getStockStatus: the badge shown in the Status column of a row.
getStockStatus(current, min) ==
  IF current = 0 THEN [label |-> "Out of Stock", variant |-> "destructive"]
  ELSE IF current <= min THEN [label |-> "Low Stock", variant |-> "warning"]
  ELSE [label |-> "In Stock", variant |-> "success"]

\* filterItems: the three filters applied one after another to the fetched
\* rows; yields the array handed to setFilteredItems.
filterItems(items, searchQuery, categoryFilter, stockFilter) ==
  LET bySearch(item) == MatchesSearch(item, searchQuery)
      byCategory(item) == InCategory(item, categoryFilter)
      f1 == IF searchQuery # <<>> THEN SelectSeq(items, bySearch) ELSE items
      f2 == IF categoryFilter # "all" THEN SelectSeq(f1, byCategory) ELSE f1
  IN IF stockFilter = "low" THEN SelectSeq(f2, IsLow)
     ELSE IF stockFilter = "out" THEN SelectSeq(f2, IsOut)
     ELSE f2

\* Mutant: filterItems narrows the items array itself.
filterEffect_InPlace(t) ==
  LET filtered == filterItems(t.items, t.searchQuery, t.categoryFilter, t.stockFilter)
  IN [t EXCEPT !.filteredItems = filtered, !.items = filtered]

\* The effect on [items, searchQuery, categoryFilter, stockFilter]: filterItems
\* runs on the component state t and stores its result in filteredItems.
filterEffect(t) ==
  [t EXCEPT !.filteredItems =
     filterItems(t.items, t.searchQuery, t.categoryFilter, t.stockFilter)]

\* useState of AddItemDialog: closed, the form empty (category_id NULL stands
\* for the unselected '').
ItemDialogInit ==
  [open |-> FALSE,
   formData |-> [name |-> <<>>, category_id |-> NULL, sku |-> "", current_stock |-> 0]]

\* useState of CategoriesManager: dialog closed, nothing edited, the form empty.
CategoryDialogInit ==
  [dialogOpen |-> FALSE, editingCategory |-> NULL, formData |-> [name |-> <<>>]]

\* useState of InventoryTable: nothing fetched, no filter chosen.
TableInit == [items |-> <<>>, searchQuery |-> <<>>, categoryFilter |-> "all",
              stockFilter |-> "all", filteredItems |-> <<>>]

ledgerVars == <<stock_movements, movement_seq, repair_jobs, job_seq, job_numbers_issued, job_items,
                job_item_seq>>
txVars == <<txs, pending, last_outcome>>

----------------------------------------------------------------------------
\* The migrated store (six default categories, three sample pouches) holding
\* item rows items and pouch rows ps, no request under way.
Migrated(items, ps) ==
  /\ categories = 1..SeedCategories
  /\ category_name = [c \in 1..SeedCategories |-> <<"c">>]
  /\ category_seq = SeedCategories
  /\ pouches = ps
  /\ pouch_seq = SeedPouches
  /\ pouch_numbers_issued = [n \in 1..SeedPouches |-> TRUE]
  /\ inventory_items = items
  /\ item_seq = Cardinality(items)
  /\ stock_movements = {}
  /\ movement_seq = 0
  /\ repair_jobs = {}
  /\ job_seq = 0
  /\ job_numbers_issued = <<>>
  /\ job_items = {}
  /\ job_item_seq = 0
  /\ txs = EmptyBag
  /\ last_outcome = "none"
  /\ toast = "none"
  /\ item_dialog = ItemDialogInit
  /\ category_dialog = CategoryDialogInit
  /\ table = TableInit
  /\ first_table = [state |-> TableInit, narrowed |-> FALSE]
  /\ created_stock = [id \in 1..Cardinality(items) |-> 0]
  /\ alloc_run = <<>>

\* State after the migration.
Init == Migrated({}, 1..SeedPouches) /\ pending = 0

\* The item rows after n insertions with pouch unset into the migrated store,
\* one after another.
RECURSIVE AllocatedItems(_)
AllocatedItems(n) ==
  IF n = 0 THEN {}
  ELSE LET prev == AllocatedItems(n - 1)
           a == auto_assign_pouch(NULL, 1..SeedPouches, SeedPouches, prev)
       IN prev \cup {ItemRow(n, <<"a">>, NULL, a.pouch_id, NULL_TEXT, 0)}

\* Mutant: the rows a failed statement wrote before it failed are kept.
RolledBack_Kept(before, after) == after

\* The rows of a table after a statement that failed: those before it.
RolledBack(before, after) == before

\* The numbers a sequence has issued, those in numbers added; kept tells
\* whether the rows that took them were committed.
Issued(issued, numbers, kept) == issued @@ [n \in numbers |-> kept]

\* INSERT INTO inventory_items as one committed statement: the BEFORE INSERT
\* trigger, then the constraint checks; a rejected row rolls the statement
\* back, the pouch the trigger created included (sequence values are not
\* given back).
InsertItem(name, category_id, pouch_id, sku, stock) ==
  LET a   == auto_assign_pouch(pouch_id, pouches, pouch_seq, inventory_items)
      row == ItemRow(item_seq + 1, name, category_id, a.pouch_id, sku, stock)
  IN IF ItemRowAccepted(row, categories, a.pouches, inventory_items)
     THEN /\ inventory_items' = inventory_items \cup {row}
          /\ pouches' = a.pouches
          /\ pouch_seq' = a.seq
          /\ pouch_numbers_issued' = Issued(pouch_numbers_issued, a.pouches \ pouches, TRUE)
          /\ item_seq' = item_seq + 1
          /\ created_stock' = created_stock @@ (item_seq + 1 :> stock)
          /\ alloc_run' = IF pouch_id # NULL THEN <<>>
                          ELSE IF pouches = {} THEN <<a.pouch_id>>
                          ELSE IF alloc_run # <<>> THEN Append(alloc_run, a.pouch_id)
                          ELSE <<>>
     ELSE /\ pouch_seq' = a.seq
          /\ pouch_numbers_issued' = Issued(pouch_numbers_issued, a.pouches \ pouches, FALSE)
          /\ pouches' = RolledBack(pouches, a.pouches)
          /\ alloc_run' = <<>>
          /\ UNCHANGED <<inventory_items, item_seq, created_stock>>

\* handleSubmit of the add-item dialog with the form holding these values
\* (category_id NULL stands for the unselected ''; the form has no pouch field).
handleSubmit(name, category_id, sku, current_stock) ==
  IF Trim(name) = <<>> \/ category_id = NULL
  THEN UNCHANGED vars
  ELSE /\ InsertItem(name, category_id, NULL, sku, current_stock)
       /\ LET inserted == item_seq' # item_seq
              mv == InitialStockMovement(movement_seq + 1, current_stock)
              sent == inserted /\ current_stock > 0
                      /\ MovementRowAccepted(mv, inventory_items')
          IN /\ stock_movements' = IF sent THEN stock_movements \cup {mv}
                                   ELSE stock_movements
             /\ movement_seq' = IF sent THEN movement_seq + 1 ELSE movement_seq
             /\ toast' = IF inserted THEN "Item Added Successfully" ELSE "Error"
             /\ item_dialog' = IF inserted THEN ItemDialogInit ELSE item_dialog
       /\ UNCHANGED <<categories, category_name, category_seq, repair_jobs, job_seq,
                      job_numbers_issued, job_items, job_item_seq, table, first_table,
                      category_dialog>>
       /\ UNCHANGED txVars

\* INSERT INTO repair_jobs.
CreateJob ==
  /\ repair_jobs' = repair_jobs \cup {job_seq + 1}
  /\ job_seq' = job_seq + 1
  /\ job_numbers_issued' = Issued(job_numbers_issued, {job_seq + 1}, TRUE)
  /\ alloc_run' = <<>>
  /\ UNCHANGED <<categories, category_name, category_seq, pouches, pouch_seq, pouch_numbers_issued, inventory_items, item_seq,
                 stock_movements, movement_seq, job_items, job_item_seq, toast, item_dialog, category_dialog, table, first_table,
                 created_stock>>
  /\ UNCHANGED txVars

\* INSERT INTO job_items as one committed statement: the constraint checks,
\* then the AFTER INSERT trigger update_stock_on_usage.
InsertJobItem(job_id, item_id, quantity_used) ==
  LET new == [id |-> job_item_seq + 1, job_id |-> job_id, item_id |-> item_id,
              quantity_used |-> quantity_used]
  IN IF JobItemRowAccepted(new, repair_jobs, inventory_items)
     THEN /\ job_items' = job_items \cup {new}
          /\ job_item_seq' = job_item_seq + 1
          /\ inventory_items' = ItemsAfterUsage(inventory_items, new)
          /\ stock_movements' = stock_movements \cup {UsageMovement(movement_seq + 1, new)}
          /\ movement_seq' = movement_seq + 1
          /\ alloc_run' = <<>>
          /\ UNCHANGED <<categories, category_name, category_seq, pouches, pouch_seq, pouch_numbers_issued, item_seq, repair_jobs,
                         job_seq, job_numbers_issued, toast, item_dialog, category_dialog, table, first_table, created_stock>>
          /\ UNCHANGED txVars
     ELSE UNCHANGED vars

\* Mutant: job_items.job_id without ON DELETE CASCADE or any check.
DeleteJob_NoCascade(job_id) ==
  /\ job_id \in repair_jobs
  /\ repair_jobs' = repair_jobs \ {job_id}
  /\ alloc_run' = <<>>
  /\ UNCHANGED <<categories, category_name, category_seq, pouches, pouch_seq,
                 pouch_numbers_issued, inventory_items, item_seq, stock_movements,
                 movement_seq, job_seq, job_numbers_issued, job_items, job_item_seq,
                 toast, item_dialog, category_dialog, table, first_table, created_stock>>
  /\ UNCHANGED txVars

\* DELETE FROM repair_jobs: job_items.job_id ... ON DELETE CASCADE.
DeleteJob(job_id) ==
  /\ job_id \in repair_jobs
  /\ repair_jobs' = repair_jobs \ {job_id}
  /\ job_items' = {ji \in job_items : ji.job_id # job_id}
  /\ alloc_run' = <<>>
  /\ UNCHANGED <<categories, category_name, category_seq, pouches, pouch_seq, pouch_numbers_issued, inventory_items, item_seq,
                 stock_movements, movement_seq, job_seq, job_numbers_issued, job_item_seq, toast, item_dialog, category_dialog, table, first_table,
                 created_stock>>
  /\ UNCHANGED txVars

\* Mutant: deleting a usage gives its quantity back to the item.
DeleteJobItem_Restocks(id) ==
  /\ \E ji \in job_items : ji.id = id
  /\ job_items' = {ji \in job_items : ji.id # id}
  /\ inventory_items' =
       {[i EXCEPT !.current_stock =
           @ + SumUsed({ji \in job_items : ji.id = id /\ ji.item_id = i.id})]
          : i \in inventory_items}
  /\ alloc_run' = <<>>
  /\ UNCHANGED <<categories, category_name, category_seq, pouches, pouch_seq, pouch_numbers_issued, item_seq,
                 stock_movements, movement_seq, repair_jobs, job_seq, job_numbers_issued,
                 job_item_seq, toast, item_dialog, category_dialog, table, first_table, created_stock>>
  /\ UNCHANGED txVars

\* DELETE FROM job_items WHERE id = ...
DeleteJobItem(id) ==
  /\ \E ji \in job_items : ji.id = id
  /\ job_items' = {ji \in job_items : ji.id # id}
  /\ alloc_run' = <<>>
  /\ UNCHANGED <<categories, category_name, category_seq, pouches, pouch_seq, pouch_numbers_issued, inventory_items, item_seq,
                 stock_movements, movement_seq, repair_jobs, job_seq, job_numbers_issued,
                 job_item_seq, toast, item_dialog, category_dialog, table, first_table, created_stock>>
  /\ UNCHANGED txVars

\* DELETE FROM inventory_items: job_items.item_id and stock_movements.item_id
\* are both ON DELETE CASCADE.
DeleteItem(id) ==
  /\ \E i \in inventory_items : i.id = id
  /\ inventory_items' = {i \in inventory_items : i.id # id}
  /\ job_items' = {ji \in job_items : ji.item_id # id}
  /\ stock_movements' = {m \in stock_movements : m.item_id # id}
  /\ alloc_run' = <<>>
  /\ UNCHANGED <<categories, category_name, category_seq, pouches, pouch_seq, pouch_numbers_issued, item_seq, movement_seq,
                 repair_jobs, job_seq, job_numbers_issued, job_item_seq, toast, item_dialog, category_dialog, table, first_table, created_stock>>
  /\ UNCHANGED txVars

\* UPDATE inventory_items SET is_active = false WHERE id = ...
DeactivateItem(id) ==
  /\ \E i \in inventory_items : i.id = id /\ i.is_active
  /\ inventory_items' =
       {IF i.id = id THEN [i EXCEPT !.is_active = FALSE] ELSE i : i \in inventory_items}
  /\ alloc_run' = <<>>
  /\ UNCHANGED <<categories, category_name, category_seq, pouches, pouch_seq, pouch_numbers_issued, item_seq, toast, item_dialog, category_dialog, table, first_table, created_stock>>
  /\ UNCHANGED ledgerVars
  /\ UNCHANGED txVars

\* DELETE FROM pouches WHERE pouch_number = p: pouch_id ... ON DELETE SET NULL.
DeletePouch(p) ==
  /\ p \in pouches
  /\ pouches' = pouches \ {p}
  /\ inventory_items' =
       {IF i.pouch_id = p THEN [i EXCEPT !.pouch_id = NULL] ELSE i : i \in inventory_items}
  /\ alloc_run' = <<>>
  /\ UNCHANGED <<categories, category_name, category_seq, pouch_seq, pouch_numbers_issued, item_seq, toast, item_dialog, category_dialog, table, first_table, created_stock>>
  /\ UNCHANGED ledgerVars
  /\ UNCHANGED txVars

\* Mutant: category_id declared ON DELETE CASCADE.
DeleteCategory_Cascade(c) ==
  /\ c \in categories
  /\ categories' = categories \ {c}
  /\ category_name' = [d \in categories \ {c} |-> category_name[d]]
  /\ inventory_items' = {i \in inventory_items : i.category_id # c}
  /\ alloc_run' = <<>>
  /\ UNCHANGED <<category_seq, pouches, pouch_seq, pouch_numbers_issued, item_seq,
                 table, first_table, created_stock, item_dialog, category_dialog>>
  /\ UNCHANGED ledgerVars
  /\ UNCHANGED txVars

\* DELETE FROM categories WHERE id = c: category_id ... ON DELETE SET NULL.
DeleteCategory(c) ==
  /\ c \in categories
  /\ categories' = categories \ {c}
  /\ category_name' = [d \in categories \ {c} |-> category_name[d]]
  /\ inventory_items' =
       {IF i.category_id = c THEN [i EXCEPT !.category_id = NULL] ELSE i
          : i \in inventory_items}
  /\ alloc_run' = <<>>
  /\ UNCHANGED <<category_seq, pouches, pouch_seq, pouch_numbers_issued, item_seq,
                 table, first_table, created_stock, item_dialog, category_dialog>>
  /\ UNCHANGED ledgerVars
  /\ UNCHANGED txVars

\* handleDelete of the categories manager; confirmed is the answer to confirm().
handleDelete(categoryId, confirmed) ==
  IF ~confirmed
  THEN UNCHANGED vars
  ELSE IF categoryId \in categories
       THEN DeleteCategory(categoryId) /\ toast' = "Category Deleted"
       ELSE toast' = "Category Deleted"
            /\ UNCHANGED <<categories, category_name, category_seq, pouches, pouch_seq,
                           pouch_numbers_issued, inventory_items, item_seq, table,
                           first_table, created_stock, alloc_run, item_dialog,
                           category_dialog>>
            /\ UNCHANGED ledgerVars
            /\ UNCHANGED txVars

\* handleSubmit of the categories manager with the form holding name;
\* editingCategory is the id of the row being edited, NULL when creating;
\* error tells whether the request comes back with an error.
CategoriesManager_submit(name, editingCategory, error) ==
  IF Trim(name) = <<>>
  THEN UNCHANGED vars
  ELSE IF error
  THEN /\ toast' = "Error"
       /\ UNCHANGED <<categories, category_name, category_seq, pouches, pouch_seq,
                      pouch_numbers_issued, inventory_items, item_seq, table,
                      first_table, created_stock, alloc_run, item_dialog,
                      category_dialog>>
       /\ UNCHANGED ledgerVars
       /\ UNCHANGED txVars
  ELSE /\ IF editingCategory # NULL
          THEN /\ category_name' =
                    [c \in categories |->
                       IF c = editingCategory THEN name ELSE category_name[c]]
               /\ toast' = "Category Updated"
               /\ UNCHANGED <<categories, category_seq>>
          ELSE /\ categories' = categories \cup {category_seq + 1}
               /\ category_name' = category_name @@ (category_seq + 1 :> name)
               /\ category_seq' = category_seq + 1
               /\ toast' = "Category Created"
       /\ category_dialog' = CategoryDialogInit
       /\ alloc_run' = <<>>
       /\ UNCHANGED <<pouches, pouch_seq, pouch_numbers_issued, inventory_items,
                      item_seq, table, first_table, created_stock, item_dialog>>
       /\ UNCHANGED ledgerVars
       /\ UNCHANGED txVars

\* handleSubmit of the categories manager, the request accepted by the store.
CategoriesManager_handleSubmit(name, editingCategory) ==
  CategoriesManager_submit(name, editingCategory, FALSE)

\* INSERT INTO pouches with pouch_number left to its SERIAL default.
CreatePouch ==
  /\ pouches' = pouches \cup {pouch_seq + 1}
  /\ pouch_seq' = pouch_seq + 1
  /\ pouch_numbers_issued' = Issued(pouch_numbers_issued, {pouch_seq + 1}, TRUE)
  /\ alloc_run' = <<>>
  /\ UNCHANGED <<categories, category_name, category_seq, inventory_items, item_seq,
                 toast, item_dialog, category_dialog, table, first_table, created_stock>>
  /\ UNCHANGED ledgerVars
  /\ UNCHANGED txVars

----------------------------------------------------------------------------
\* Allocator, sequential: item rows inserted one after another with pouch_id
\* unset, pouches and items deleted in between.
AllocInsertUnset ==
  /\ item_seq < MaxItems
  /\ InsertItem(<<"a">>, NULL, NULL, NULL_TEXT, 0)
  /\ UNCHANGED <<categories, category_name, category_seq, toast, item_dialog, category_dialog, table, first_table>>
  /\ UNCHANGED ledgerVars
  /\ UNCHANGED txVars

AllocDeletePouch == \E p \in pouches : DeletePouch(p)

AllocDeleteItem ==
  /\ item_seq - Cardinality(inventory_items) < MaxDeleted
  /\ \E i \in inventory_items : DeleteItem(i.id)

NextAlloc == AllocInsertUnset \/ AllocDeletePouch \/ AllocDeleteItem

SpecAlloc == Init /\ [][NextAlloc]_vars

----------------------------------------------------------------------------
\* Ledger, sequential: the add-item dialog, repair jobs, job-item usages and
\* the deletions the schema cascades.
Names == {<<>>, <<" ">>, <<"a">>}
Skus == {"", "A"}

SubmitItem ==
  /\ item_seq < MaxLedgerItems
  /\ \E name \in Names, category_id \in {NULL, 1}, sku \in Skus,
        current_stock \in {0, MaxQty} :
       handleSubmit(name, category_id, sku, current_stock)

AddJob == job_seq < MaxJobs /\ CreateJob

UseItem ==
  /\ job_item_seq < MaxUsages
  /\ \E job_id \in 1..job_seq, item_id \in 1..item_seq, q \in {1, MaxQty} :
       InsertJobItem(job_id, item_id, q)

RemoveJob == \E j \in repair_jobs : DeleteJob(j)

RemoveJobItem == \E ji \in job_items : DeleteJobItem(ji.id)

RemoveItem == \E i \in inventory_items : DeleteItem(i.id)

Next == SubmitItem \/ AddJob \/ UseItem \/ RemoveJob \/ RemoveJobItem \/ RemoveItem

Spec == Init /\ [][Next]_vars

----------------------------------------------------------------------------
\* Usage: items added through the dialog with and without stock, a repair job,
\* and job-item usages of every quantity up to MaxQty.
UsageSubmitItem ==
  /\ item_seq < MaxLedgerItems
  /\ \E sku \in Skus, current_stock \in {0, MaxQty} :
       handleSubmit(<<"a">>, 1, sku, current_stock)

UsageAddJob == job_seq < MaxJobs /\ CreateJob

UsageUseItem ==
  /\ job_item_seq < MaxUsages
  /\ \E job_id \in 1..job_seq, item_id \in 1..item_seq, q \in 1..MaxQty :
       InsertJobItem(job_id, item_id, q)

NextUsage == UsageSubmitItem \/ UsageAddJob \/ UsageUseItem

SpecUsage == Init /\ [][NextUsage]_vars

----------------------------------------------------------------------------
\* Pouches, sequential: every operation on item and pouch rows, from the store
\* as PreFill insertions with pouch unset leave it.
InitPouch == Migrated(AllocatedItems(PreFill), 1..SeedPouches) /\ pending = 0

PouchInsertUnset ==
  /\ item_seq < PreFill + MaxNewItems
  /\ InsertItem(<<"a">>, NULL, NULL, NULL_TEXT, 0)
  /\ UNCHANGED <<categories, category_name, category_seq, toast, item_dialog, category_dialog, table, first_table>>
  /\ UNCHANGED ledgerVars
  /\ UNCHANGED txVars

PouchInsertExplicit ==
  /\ item_seq < PreFill + MaxNewItems
  /\ \E p \in pouches : InsertItem(<<"a">>, NULL, p, NULL_TEXT, 0)
  /\ UNCHANGED <<categories, category_name, category_seq, toast, item_dialog, category_dialog, table, first_table>>
  /\ UNCHANGED ledgerVars
  /\ UNCHANGED txVars

PouchDeactivate ==
  /\ Cardinality({i \in inventory_items : ~i.is_active}) < MaxInactive
  /\ \E i \in inventory_items : DeactivateItem(i.id)

PouchDeleteItem ==
  /\ item_seq - Cardinality(inventory_items) < MaxDeleted
  /\ \E i \in inventory_items : DeleteItem(i.id)

PouchDeletePouch == \E p \in pouches : DeletePouch(p)

NextPouch ==
  \/ PouchInsertUnset
  \/ PouchInsertExplicit
  \/ PouchDeactivate
  \/ PouchDeleteItem
  \/ PouchDeletePouch

SpecPouch == InitPouch /\ [][NextPouch]_vars

----------------------------------------------------------------------------
\* Allocator, concurrent.  Each create_item request is one READ COMMITTED
\* transaction: the trigger's SELECT sees the rows committed when it runs,
\* the rows the transaction writes stay invisible to the others until it
\* commits, and nothing in auto_assign_pouch takes a lock.  Transactions are
\* kept as a bag: requests are identical and carry no identity.

\* The pouch set emptied by deleting the three sample pouches, K calls fired.
InitBurst == Migrated({}, {}) /\ pending = BurstCalls

\* Pouch #1 one short of full, RaceCalls calls fired.
InitRace == Migrated(AllocatedItems(PouchCapacity - 1), 1..SeedPouches)
            /\ pending = RaceCalls

InitConcAlloc == InitBurst \/ InitRace

\* The request starts and the trigger runs its SELECT.
TxItemSelect ==
  /\ pending > 0
  /\ BagCardinality(txs) < MaxInFlight
  /\ pending' = pending - 1
  /\ txs' = txs (+) SetToBag({[pc |-> "selected",
                               found |-> SelectAvailablePouch(pouches, inventory_items),
                               pouch_id |-> NULL, created |-> FALSE]})
  /\ UNCHANGED <<categories, category_name, category_seq, pouches, pouch_seq, pouch_numbers_issued, inventory_items, item_seq,
                 last_outcome, toast, item_dialog, category_dialog, table, first_table, created_stock, alloc_run>>
  /\ UNCHANGED ledgerVars

\* The trigger creates a pouch if it found none (the sequence is advanced at
\* once, outside the transaction), binds NEW.pouch_id, and the row is written.
TxItemWrite ==
  \E t \in BagToSet(txs) :
    /\ t.pc = "selected"
    /\ LET a == AssignFound(t.found, pouches, pouch_seq)
       IN /\ pouch_seq' = a.seq
          /\ pouch_numbers_issued' = Issued(pouch_numbers_issued, a.pouches \ pouches, TRUE)
          /\ txs' = (txs (-) SetToBag({t}))
                    (+) SetToBag({[pc |-> "written", found |-> t.found,
                                   pouch_id |-> a.pouch_id,
                                   created |-> (t.found = NULL)]})
    /\ UNCHANGED <<categories, category_name, category_seq, pouches, inventory_items, item_seq, pending,
                   last_outcome, toast, item_dialog, category_dialog, table, first_table, created_stock, alloc_run>>
    /\ UNCHANGED ledgerVars

\* COMMIT: the item row, and the pouch row if one was created, become visible.
TxItemCommit ==
  \E t \in BagToSet(txs) :
    /\ t.pc = "written"
    /\ inventory_items' = inventory_items
         \cup {ItemRow(item_seq + 1, <<"a">>, NULL, t.pouch_id, NULL_TEXT, 0)}
    /\ item_seq' = item_seq + 1
    /\ created_stock' = created_stock @@ (item_seq + 1 :> 0)
    /\ pouches' = IF t.created THEN pouches \cup {t.pouch_id} ELSE pouches
    /\ txs' = txs (-) SetToBag({t})
    /\ last_outcome' = "commit"
    /\ UNCHANGED <<categories, category_name, category_seq, pouch_seq, pouch_numbers_issued, pending, toast, item_dialog, category_dialog, table, first_table, alloc_run>>
    /\ UNCHANGED ledgerVars

NextConcAlloc == TxItemSelect \/ TxItemWrite \/ TxItemCommit

SpecConcAlloc == InitConcAlloc /\ [][NextConcAlloc]_vars

----------------------------------------------------------------------------
\* Ledger, concurrent.  Each create_job_item request is one READ COMMITTED
\* transaction running the INSERT and, inside the same statement, the AFTER
\* INSERT trigger.  The trigger's UPDATE takes the item's row lock, waits for
\* a transaction holding it to end, and reads the row as last committed; the
\* lock is held until COMMIT or ROLLBACK.  What a transaction wrote becomes
\* visible at COMMIT, all at once, and is discarded by ROLLBACK.

\* The store after the dialog added two items with stock MaxQty and a repair
\* job was created, MaxCalls usage calls fired.
InitConcLedger ==
  LET i1 == ItemRow(1, <<"a">>, 1,
                    auto_assign_pouch(NULL, 1..SeedPouches, SeedPouches, {}).pouch_id,
                    "", MaxQty)
      i2 == ItemRow(2, <<"a">>, 1,
                    auto_assign_pouch(NULL, 1..SeedPouches, SeedPouches, {i1}).pouch_id,
                    "A", MaxQty)
  IN /\ categories = 1..SeedCategories
     /\ category_name = [c \in 1..SeedCategories |-> <<"c">>]
     /\ category_seq = SeedCategories
     /\ pouches = 1..SeedPouches
     /\ pouch_seq = SeedPouches
     /\ pouch_numbers_issued = [n \in 1..SeedPouches |-> TRUE]
     /\ inventory_items = {i1, i2}
     /\ item_seq = 2
     /\ stock_movements = {}
     /\ movement_seq = 0
     /\ repair_jobs = {1}
     /\ job_seq = 1
     /\ job_numbers_issued = <<TRUE>>
     /\ job_items = {}
     /\ job_item_seq = 0
     /\ txs = EmptyBag
     /\ pending = MaxCalls
     /\ last_outcome = "none"
     /\ toast = "Item Added Successfully"
     /\ item_dialog = ItemDialogInit
     /\ category_dialog = CategoryDialogInit
     /\ table = TableInit
     /\ first_table = [state |-> TableInit, narrowed |-> FALSE]
     /\ created_stock = (1 :> MaxQty) @@ (2 :> MaxQty)
     /\ alloc_run = <<>>

\* Mutant: the UPDATE takes no row lock.
RowLockFree_NoLock(item_id, inflight) == TRUE

\* Whether the UPDATE of item item_id can take the row lock: no transaction
\* in flight has updated the row and not yet ended.
RowLockFree(item_id, inflight) ==
  \A t \in BagToSet(inflight) :
    t.item_id = item_id => t.pc \notin {"updated", "logged"}

\* The request starts: the job_items row passes its constraints and is written.
TxUsageInsert ==
  /\ pending > 0
  /\ BagCardinality(txs) < MaxInFlight
  /\ \E job_id \in repair_jobs, i \in inventory_items, q \in {1, MaxQty} :
       /\ JobItemRowAccepted([job_id |-> job_id, item_id |-> i.id],
                             repair_jobs, inventory_items)
       /\ txs' = txs (+) SetToBag({[pc |-> "inserted", job_id |-> job_id,
                                    item_id |-> i.id, quantity_used |-> q,
                                    stock |-> 0]})
  /\ pending' = pending - 1
  /\ UNCHANGED <<categories, category_name, category_seq, pouches, pouch_seq, pouch_numbers_issued, inventory_items, item_seq,
                 last_outcome, toast, item_dialog, category_dialog, table, first_table, created_stock, alloc_run>>
  /\ UNCHANGED ledgerVars

\* The trigger's UPDATE: lock the item row, decrement its committed stock.
TxUsageUpdate ==
  \E t \in BagToSet(txs) :
    /\ t.pc = "inserted"
    /\ RowLockFree(t.item_id, txs)
    /\ \E i \in inventory_items :
         /\ i.id = t.item_id
         /\ txs' = (txs (-) SetToBag({t}))
                   (+) SetToBag({[t EXCEPT !.pc = "updated",
                                           !.stock = StockAfterUsage(i.current_stock,
                                                                     t.quantity_used)]})
    /\ UNCHANGED <<categories, category_name, category_seq, pouches, pouch_seq, pouch_numbers_issued, inventory_items, item_seq,
                   pending, last_outcome, toast, item_dialog, category_dialog, table, first_table, created_stock, alloc_run>>
    /\ UNCHANGED ledgerVars

\* The trigger's INSERT INTO stock_movements.
TxUsageLog ==
  \E t \in BagToSet(txs) :
    /\ t.pc = "updated"
    /\ txs' = (txs (-) SetToBag({t})) (+) SetToBag({[t EXCEPT !.pc = "logged"]})
    /\ UNCHANGED <<categories, category_name, category_seq, pouches, pouch_seq, pouch_numbers_issued, inventory_items, item_seq,
                   pending, last_outcome, toast, item_dialog, category_dialog, table, first_table, created_stock, alloc_run>>
    /\ UNCHANGED ledgerVars

\* COMMIT: the job_items row, the new stock and the movement become visible.
TxUsageCommit ==
  \E t \in BagToSet(txs) :
    /\ t.pc = "logged"
    /\ LET new == [id |-> job_item_seq + 1, job_id |-> t.job_id,
                   item_id |-> t.item_id, quantity_used |-> t.quantity_used]
       IN /\ job_items' = job_items \cup {new}
          /\ stock_movements' = stock_movements
                                  \cup {UsageMovement(movement_seq + 1, new)}
    /\ job_item_seq' = job_item_seq + 1
    /\ movement_seq' = movement_seq + 1
    /\ inventory_items' =
         {IF i.id = t.item_id THEN [i EXCEPT !.current_stock = t.stock] ELSE i
            : i \in inventory_items}
    /\ txs' = txs (-) SetToBag({t})
    /\ last_outcome' = "commit"
    /\ UNCHANGED <<categories, category_name, category_seq, pouches, pouch_seq, pouch_numbers_issued, item_seq, repair_jobs, job_seq, job_numbers_issued,
                   pending, toast, item_dialog, category_dialog, table, first_table, created_stock, alloc_run>>

\* What the caller of a failed create_job_item is told, by where it failed.
FailedAt(pc) ==
  CASE pc = "inserted" -> "UPDATE failed"
    [] pc = "updated" -> "INSERT failed"
    [] OTHER -> "COMMIT failed"

\* Mutant: the decrement is not undone when the statement fails after it.
TxUsageAbort_KeepsDecrement ==
  \E t \in BagToSet(txs) :
    /\ inventory_items' =
         {IF i.id = t.item_id /\ t.pc # "inserted"
          THEN [i EXCEPT !.current_stock = t.stock] ELSE i : i \in inventory_items}
    /\ txs' = txs (-) SetToBag({t})
    /\ last_outcome' = FailedAt(t.pc)
    /\ UNCHANGED <<categories, category_name, category_seq, pouches, pouch_seq, pouch_numbers_issued, item_seq, pending, toast, item_dialog, category_dialog, table, first_table,
                   created_stock, alloc_run>>
    /\ UNCHANGED ledgerVars

\* A write of the statement fails (the UPDATE or the movement INSERT raises):
\* the statement's transaction is rolled back and the caller gets the error.
TxUsageAbort ==
  \E t \in BagToSet(txs) :
    /\ txs' = txs (-) SetToBag({t})
    /\ last_outcome' = FailedAt(t.pc)
    /\ UNCHANGED <<categories, category_name, category_seq, pouches, pouch_seq, pouch_numbers_issued, inventory_items, item_seq,
                   pending, toast, item_dialog, category_dialog, table, first_table, created_stock, alloc_run>>
    /\ UNCHANGED ledgerVars

NextConcLedger ==
  TxUsageInsert \/ TxUsageUpdate \/ TxUsageLog \/ TxUsageCommit \/ TxUsageAbort

SpecConcLedger == InitConcLedger /\ [][NextConcLedger]_vars

----------------------------------------------------------------------------
\* Numbering: pouches and repair jobs created and deleted, items added through
\* the dialog, some of them rejected for a duplicate SKU after the trigger
\* created a pouch.
NumSubmitItem ==
  /\ item_seq < MaxLedgerItems
  /\ pouch_seq < MaxPouchNumber
  /\ \E sku \in Skus : handleSubmit(<<"a">>, 1, sku, 0)

NumCreatePouch == pouch_seq < MaxPouchNumber /\ CreatePouch

NumDeletePouch == \E p \in pouches : DeletePouch(p)

NumAddJob == job_seq < MaxJobNumber /\ CreateJob

NumDeleteJob == \E j \in repair_jobs : DeleteJob(j)

NextNumbers ==
  NumSubmitItem \/ NumCreatePouch \/ NumDeletePouch \/ NumAddJob \/ NumDeleteJob

SpecNumbers == Init /\ [][NextNumbers]_vars

----------------------------------------------------------------------------
\* Categories: the categories manager creating, renaming and deleting
\* categories, the add-item dialog, and pouches deleted.
CatSubmitItem ==
  /\ item_seq < MaxLedgerItems
  /\ pouch_seq < MaxPouchNumber
  /\ \E name \in Names, category_id \in 0..MaxSeedEdited, sku \in Skus :
       handleSubmit(name, category_id, sku, MaxQty)

\* The rows the manager's user works on.
Edited == {c \in categories : c <= MaxSeedEdited \/ c > SeedCategories}

CatCreate ==
  /\ category_seq < SeedCategories + MaxNewCategories
  /\ \E name \in Names : CategoriesManager_handleSubmit(name, NULL)

CatRename ==
  \E name \in Names, editingCategory \in Edited :
    CategoriesManager_handleSubmit(name, editingCategory)

CatDelete == \E c \in Edited, confirmed \in BOOLEAN : handleDelete(c, confirmed)

CatDeletePouch == \E p \in pouches : DeletePouch(p)

NextCategories ==
  CatSubmitItem \/ CatCreate \/ CatRename \/ CatDelete \/ CatDeletePouch

SpecCategories == Init /\ [][NextCategories]_vars

----------------------------------------------------------------------------
\* Inventory table: the rows are fetched when the component mounts, then the
\* user changes the three filters; the effect re-runs filterItems each time.
storeVars == <<categories, category_name, category_seq, pouches, pouch_seq,
               pouch_numbers_issued, inventory_items, item_seq, toast, item_dialog, category_dialog,
               created_stock, alloc_run>>

\* The text columns and joined category of a fetched row: the text sits in
\* the name, the description, the sku or the supplier.
FetchedTexts ==
  {[name |-> <<"A", "b">>, description |-> {}, sku |-> {}, supplier |-> {},
    categories |-> {"x"}],
   [name |-> <<"b">>, description |-> {<<"a">>}, sku |-> {<<>>}, supplier |-> {<<>>},
    categories |-> {}],
   [name |-> <<"b">>, description |-> {<<>>}, sku |-> {<<"A">>}, supplier |-> {},
    categories |-> {"x"}],
   [name |-> <<"b">>, description |-> {}, sku |-> {}, supplier |-> {<<"b", "a">>},
    categories |-> {"y"}]}

\* The stock columns of a fetched row: out of stock, out of stock with no
\* minimum to fall under, overdrawn, well stocked.
FetchedStocks ==
  {[current_stock |-> 0, min_stock_level |-> 5],
   [current_stock |-> 0, min_stock_level |-> -1],
   [current_stock |-> -1, min_stock_level |-> 5],
   [current_stock |-> 6, min_stock_level |-> 5]}

\* Rows as fetchItems selects them: the item's columns and its joined category.
FetchedRows ==
  {[name |-> t.name, description |-> t.description, sku |-> t.sku,
    supplier |-> t.supplier, categories |-> t.categories,
    current_stock |-> k.current_stock, min_stock_level |-> k.min_stock_level]
     : t \in FetchedTexts, k \in FetchedStocks}

FetchedLists == UNION {[1..n -> FetchedRows] : n \in 0..MaxFetched}

SearchQueries == {<<>>, <<"a">>, <<"A", "B">>, <<" ">>}
CategoryFilters == {"all", "x", "y"}
StockFilters == {"all", "low", "out"}

\* fetchItems resolving after mount, before the user touched a filter.
TableFetch ==
  /\ table = TableInit
  /\ \E data \in FetchedLists :
       /\ data # <<>>
       /\ table' = filterEffect([table EXCEPT !.items = data])
       /\ first_table' = [state |-> table', narrowed |-> FALSE]
  /\ UNCHANGED <<storeVars, ledgerVars, txVars>>

setSearchQuery(q) ==
  /\ table' = filterEffect([table EXCEPT !.searchQuery = q])
  /\ first_table' = [first_table EXCEPT !.narrowed =
                        @ \/ Len(table'.filteredItems) < Len(table'.items)]
  /\ UNCHANGED <<storeVars, ledgerVars, txVars>>

setCategoryFilter(c) ==
  /\ table' = filterEffect([table EXCEPT !.categoryFilter = c])
  /\ first_table' = [first_table EXCEPT !.narrowed =
                        @ \/ Len(table'.filteredItems) < Len(table'.items)]
  /\ UNCHANGED <<storeVars, ledgerVars, txVars>>

setStockFilter(f) ==
  /\ table' = filterEffect([table EXCEPT !.stockFilter = f])
  /\ first_table' = [first_table EXCEPT !.narrowed =
                        @ \/ Len(table'.filteredItems) < Len(table'.items)]
  /\ UNCHANGED <<storeVars, ledgerVars, txVars>>

TableSearch == \E q \in SearchQueries : setSearchQuery(q)

TableCategory == \E c \in CategoryFilters : setCategoryFilter(c)

TableStock == \E f \in StockFilters : setStockFilter(f)

NextFilter == TableFetch \/ TableSearch \/ TableCategory \/ TableStock

SpecFilter == Init /\ [][NextFilter]_vars

----------------------------------------------------------------------------
\* Bindings: items inserted with and without a pouch supplied, then updated,
\* used in a repair job, and their pouches deleted.
BindInsertUnset ==
  /\ item_seq < MaxLedgerItems
  /\ pouch_seq < MaxPouchNumber
  /\ InsertItem(<<"a">>, NULL, NULL, NULL_TEXT, MaxQty)
  /\ UNCHANGED <<categories, category_name, category_seq, toast, item_dialog, category_dialog, table, first_table>>
  /\ UNCHANGED ledgerVars
  /\ UNCHANGED txVars

BindInsertExplicit ==
  /\ item_seq < MaxLedgerItems
  /\ \E p \in pouches : InsertItem(<<"a">>, NULL, p, NULL_TEXT, MaxQty)
  /\ UNCHANGED <<categories, category_name, category_seq, toast, item_dialog, category_dialog, table, first_table>>
  /\ UNCHANGED ledgerVars
  /\ UNCHANGED txVars

BindDeactivate == \E i \in inventory_items : DeactivateItem(i.id)

BindDeletePouch == \E p \in pouches : DeletePouch(p)

BindAddJob == job_seq < MaxJobs /\ CreateJob

BindUseItem ==
  /\ job_item_seq < MaxUsages
  /\ \E job_id \in repair_jobs, i \in inventory_items :
       InsertJobItem(job_id, i.id, MaxQty)

NextBinding ==
  \/ BindInsertUnset
  \/ BindInsertExplicit
  \/ BindDeactivate
  \/ BindDeletePouch
  \/ BindAddJob
  \/ BindUseItem

SpecBinding == Init /\ [][NextBinding]_vars

----------------------------------------------------------------------------
\* Dialogs: the user opens the add-item dialog and the category dialog, fills
\* in their forms field by field and submits them.
formVars == <<categories, category_name, category_seq, pouches, pouch_seq,
              pouch_numbers_issued, inventory_items, item_seq, toast, table,
              first_table, created_stock, alloc_run>>

\* The add-item dialog's trigger: setOpen(true).
ItemDialogOpen ==
  /\ ~item_dialog.open
  /\ item_dialog' = [item_dialog EXCEPT !.open = TRUE]
  /\ UNCHANGED <<formVars, ledgerVars, txVars, category_dialog>>

\* An onChange handler of the add-item form: setFormData with one field changed.
ItemDialogChange(formData) ==
  /\ item_dialog.open
  /\ item_dialog' = [item_dialog EXCEPT !.formData = formData]
  /\ UNCHANGED <<formVars, ledgerVars, txVars, category_dialog>>

ItemDialogSetName ==
  \E name \in Names :
    ItemDialogChange([item_dialog.formData EXCEPT !.name = name])

ItemDialogSetCategory ==
  \E category_id \in {NULL, 1} :
    ItemDialogChange([item_dialog.formData EXCEPT !.category_id = category_id])

ItemDialogSetSku ==
  \E sku \in Skus : ItemDialogChange([item_dialog.formData EXCEPT !.sku = sku])

ItemDialogSetStock ==
  \E current_stock \in {0, MaxQty} :
    ItemDialogChange([item_dialog.formData EXCEPT !.current_stock = current_stock])

\* The add-item form submitted as it stands.
ItemDialogSubmit ==
  /\ item_dialog.open
  /\ item_seq < MaxLedgerItems
  /\ LET f == item_dialog.formData
     IN handleSubmit(f.name, f.category_id, f.sku, f.current_stock)

\* openCreateDialog of the categories manager.
openCreateDialog ==
  /\ category_dialog' = [dialogOpen |-> TRUE, editingCategory |-> NULL,
                         formData |-> [name |-> <<>>]]
  /\ UNCHANGED <<formVars, ledgerVars, txVars, item_dialog>>

\* handleEdit of the categories manager on the row of category c.
handleEdit(c) ==
  /\ category_dialog' = [dialogOpen |-> TRUE, editingCategory |-> c,
                         formData |-> [name |-> category_name[c]]]
  /\ UNCHANGED <<formVars, ledgerVars, txVars, item_dialog>>

CategoryDialogEdit == \E c \in Edited : handleEdit(c)

\* The onChange handler of the category form's name.
CategoryDialogSetName ==
  /\ category_dialog.dialogOpen
  /\ \E name \in Names :
       category_dialog' = [category_dialog EXCEPT !.formData.name = name]
  /\ UNCHANGED <<formVars, ledgerVars, txVars, item_dialog>>

\* The category form submitted as it stands; the request may fail.
CategoryDialogSubmit ==
  /\ category_dialog.dialogOpen
  /\ category_seq < SeedCategories + MaxNewCategories
  /\ \E error \in BOOLEAN :
       CategoriesManager_submit(category_dialog.formData.name,
                                category_dialog.editingCategory, error)

NextDialogs ==
  \/ ItemDialogOpen
  \/ ItemDialogSetName
  \/ ItemDialogSetCategory
  \/ ItemDialogSetSku
  \/ ItemDialogSetStock
  \/ ItemDialogSubmit
  \/ openCreateDialog
  \/ CategoryDialogEdit
  \/ CategoryDialogSetName
  \/ CategoryDialogSubmit

SpecDialogs == Init /\ [][NextDialogs]_vars

----------------------------------------------------------------------------
\* Claims.

\* C1: through item creations with pouch unset made one after another, no
\* pouch is ever bound to more than 10 items.
C1_NoPouchOverCapacity ==
  \A p \in pouches : Occupancy(p, inventory_items) <= PouchCapacity

\* C1 witness: a pouch holds 10 items and the creation after them was bound
\* to another pouch.
C1_Witness ==
  /\ item_seq > PouchCapacity
  /\ \E p \in pouches :
       /\ Occupancy(p, inventory_items) = PouchCapacity
       /\ \E i \in inventory_items :
            i.id = item_seq /\ i.pouch_id # p /\ i.pouch_id \in pouches

\* C2 as stated, its scenario: from an empty pouch set, of 11 creations made
\* one after another the first 10 land in pouch #1 and the 11th in pouch #2.
C2_ScenarioAsStated ==
  \A k \in 1..Len(alloc_run) :
    k <= PouchCapacity + 1 =>
      alloc_run[k] = IF k <= PouchCapacity THEN 1 ELSE 2

\* One creation with pouch unset: the row is bound to the lowest-numbered
\* pouch with fewer than 10 items, and a pouch is created (numbered with the
\* next value of the sequence) only when every pouch holds 10 or more.
C2_RuleStep ==
  item_seq' = item_seq + 1 =>
    LET new == CHOOSE i \in inventory_items' : i.id = item_seq'
        open == {p \in pouches :
                   Cardinality({i \in inventory_items : i.pouch_id = p}) < PouchCapacity}
    IN IF open # {}
       THEN /\ new.pouch_id \in open
            /\ \A q \in open : new.pouch_id <= q
            /\ pouches' = pouches
       ELSE /\ new.pouch_id = pouch_seq + 1
            /\ new.pouch_id \notin pouches
            /\ pouches' = pouches \cup {new.pouch_id}

\* From an empty pouch set, creations made one after another fill a newly
\* created pouch #n with 10 items and bind the 11th to a new pouch #n+1,
\* where n lies beyond the numbers the sample pouches took.
C2_ScenarioAmended ==
  \A k \in 1..Len(alloc_run) :
    /\ alloc_run[1] > SeedPouches
    /\ alloc_run[k] = alloc_run[1] + ((k - 1) \div PouchCapacity)

\* C2 (amended): the allocation rule holds of every creation with pouch
\* unset, and the 11-creation scenario holds with pouch numbers #n and #n+1
\* taken from the sequence instead of #1 and #2.
C2_Amended == [][C2_RuleStep]_vars /\ []C2_ScenarioAmended

\* C2 witness: 11 creations in a row from an empty pouch set.
C2_Witness == Len(alloc_run) = PouchCapacity + 1

\* C3: under every interleaving of concurrent creations with pouch unset, no
\* pouch ends up bound to more than 10 items.
C3_NoOverflowConcurrent ==
  \A p \in pouches :
    Cardinality({i \in inventory_items : i.pouch_id = p}) <= PouchCapacity

\* C4: K concurrent creations against an empty pouch set end with exactly
\* ceil(K/10) pouches and K items, each bound to a pouch.
C4_BurstResult ==
  (pending = 0 /\ txs = EmptyBag /\ 1 \notin pouches) =>
    /\ Cardinality(pouches) = (BurstCalls + PouchCapacity - 1) \div PouchCapacity
    /\ Cardinality(inventory_items) = BurstCalls
    /\ \A i \in inventory_items : i.pouch_id \in pouches

\* One job-item usage creation: the item's stock drops by the quantity, no
\* other item row changes, and one movement row is appended for it.
C5_UsageStep ==
  job_item_seq' = job_item_seq + 1 =>
    LET ji == CHOOSE r \in job_items' : r.id = job_item_seq'
        added == stock_movements' \ stock_movements
    IN /\ \E i \in inventory_items : i.id = ji.item_id
       /\ \A i \in inventory_items :
            IF i.id = ji.item_id
            THEN [i EXCEPT !.current_stock = i.current_stock - ji.quantity_used]
                   \in inventory_items'
            ELSE i \in inventory_items'
       /\ Cardinality(inventory_items') = Cardinality(inventory_items)
       /\ stock_movements \subseteq stock_movements'
       /\ Cardinality(added) = 1
       /\ \A m \in added :
            /\ m.item_id = ji.item_id
            /\ m.movement_type = "OUT"
            /\ m.quantity = ji.quantity_used
            /\ m.reason = "Used in repair job"
            /\ m.reference_id = ToString(ji.job_id)

\* C5: every job-item usage creation with quantity Q lowers the item's
\* current_stock by exactly Q and appends exactly one movement (OUT, Q,
\* 'Used in repair job', reference = the job id); no other stock changes.
C5_Usage == [][C5_UsageStep]_vars

\* C5 witness: a usage was recorded against one of two items.
C5_Witness ==
  /\ Cardinality(inventory_items) >= 2
  /\ \E ji \in job_items, i \in inventory_items :
       /\ i.id = ji.item_id
       /\ i.current_stock = created_stock[i.id] - ji.quantity_used

\* C6: every item created with current_stock = S > 0 has exactly one IN
\* movement of quantity S that references it.
C6_InitialStockMovement ==
  \A i \in inventory_items :
    created_stock[i.id] > 0 =>
      Cardinality({m \in stock_movements :
                     /\ m.movement_type = "IN"
                     /\ m.item_id = i.id
                     /\ m.quantity = created_stock[i.id]}) = 1

\* C7: concurrent usages against one item lose no decrement: the item's
\* committed stock is its starting stock minus the quantities of the usages
\* committed, and there is one OUT movement per usage.
C7_NoLostDecrement ==
  \A i \in inventory_items :
    LET used == {ji \in job_items : ji.item_id = i.id}
    IN /\ i.current_stock = created_stock[i.id] - SumUsed(used)
       /\ Cardinality({m \in stock_movements :
                         m.item_id = i.id /\ m.movement_type = "OUT"})
            = Cardinality(used)

\* C7 witness: a usage of an item is committed while a second one holds the
\* item's row lock and a third waits for it.
C7_Witness ==
  /\ job_items # {}
  /\ \E t1, t2 \in BagToSet(txs), ji \in job_items :
       /\ t1.pc = "logged"
       /\ t2.pc = "inserted"
       /\ t1.item_id = t2.item_id
       /\ ji.item_id = t1.item_id

\* What is visible: every decrement of a stock is matched by OUT movements of
\* the same total, and movements and job_items rows pair off.
C8_VisibleMatched ==
  /\ \A i \in inventory_items :
       created_stock[i.id] - i.current_stock
         = SumQty({m \in stock_movements :
                     m.item_id = i.id /\ m.movement_type = "OUT"})
  /\ \A j \in repair_jobs, i \in inventory_items, q \in {1, MaxQty} :
       Cardinality({ji \in job_items :
                      ji.job_id = j /\ ji.item_id = i.id /\ ji.quantity_used = q})
         = Cardinality({m \in stock_movements :
                          /\ m.reference_id = ToString(j)
                          /\ m.item_id = i.id
                          /\ m.quantity = q})

\* A failed usage leaves the three tables as they were.
C8_FailureStep ==
  (last_outcome' # "commit" /\ BagCardinality(txs') < BagCardinality(txs)) =>
    UNCHANGED <<inventory_items, stock_movements, job_items>>

\* C8: the decrement, the OUT movement and the job_items row are one atomic
\* unit: no visible state has one without the others, and a usage that fails
\* changes none of the three tables.
C8_Atomic == []C8_VisibleMatched /\ [][C8_FailureStep]_vars

\* C8 witness: a usage failed at its movement INSERT, after its UPDATE, while
\* another usage had committed.
C8_Witness ==
  /\ last_outcome = "INSERT failed"
  /\ job_items # {}

\* C9: a stock_movements row, once written, is never updated or deleted.
C9_MovementsImmutable == [][stock_movements \subseteq stock_movements']_vars

\* C10: under every operation on items and pouches, every pouch holds at
\* most 10 active items.
C10_AtMostTenActive ==
  \A p \in pouches :
    Cardinality({i \in inventory_items : i.pouch_id = p /\ i.is_active}) <= PouchCapacity

\* C11: every pouch (repair job) created gets a number strictly greater than
\* every number its sequence issued before, whether the row that took the
\* earlier number is still there, was deleted, or was rolled back with the
\* item creation that made it; so numbers are unique and never reused.
C11_NumberStep ==
  /\ \A p \in pouches' \ pouches :
       \A n \in DOMAIN pouch_numbers_issued : p > n
  /\ \A j \in repair_jobs' \ repair_jobs :
       \A n \in DOMAIN job_numbers_issued : j > n

C11_NumbersIncrease == [][C11_NumberStep]_vars

\* C11 witness: a pouch stands that was created after a pouch was deleted and
\* after a pouch was rolled back with its item, and a job stands that was
\* created after a job was deleted.
C11_Witness ==
  /\ \E p \in pouches, d, r \in DOMAIN pouch_numbers_issued :
       /\ pouch_numbers_issued[d] /\ d \notin pouches /\ d < p
       /\ ~pouch_numbers_issued[r] /\ r < p
  /\ \E j \in repair_jobs, d \in DOMAIN job_numbers_issued :
       d \notin repair_jobs /\ d < j

\* C12: a step that deletes a category or a pouch deletes no item: the items
\* keep their ids, the items that referenced the deleted row have that
\* reference set to NULL, and every other field of every item is as before.
C12_DeleteStep ==
  LET cs == categories \ categories'
      ps == pouches \ pouches'
  IN cs # {} \/ ps # {} =>
       inventory_items' =
         {[i EXCEPT !.category_id = IF @ \in cs THEN NULL ELSE @,
                    !.pouch_id = IF @ \in ps THEN NULL ELSE @]
            : i \in inventory_items}

C13_JobItemsReferenced ==
  \A ji \in job_items :
    /\ ji.job_id \in repair_jobs
    /\ \E i \in inventory_items : i.id = ji.item_id

\* C13 witness: usages were recorded, then an item and the job were deleted,
\* and no job_items row is left.
C13_Witness ==
  /\ job_item_seq = MaxUsages
  /\ Cardinality({m \in stock_movements : m.movement_type = "OUT"}) = 1
  /\ Cardinality(inventory_items) = item_seq - 1
  /\ repair_jobs = {} /\ job_seq > 0
  /\ job_items = {}

\* C14: a usage of more units than the item has in stock is accepted: for
\* every existing job and item and every quantity above the item's
\* current_stock, the insertion writes the job_items row, leaves current_stock
\* at stock minus quantity, below zero, and appends the OUT movement.
C14_OverdrawAccepted ==
  \A i \in inventory_items, j \in repair_jobs, q \in 1..MaxQty :
    q > i.current_stock =>
      ENABLED (/\ InsertJobItem(j, i.id, q)
               /\ \E ji \in job_items' \ job_items :
                    ji.job_id = j /\ ji.item_id = i.id /\ ji.quantity_used = q
               /\ \E k \in inventory_items' :
                    /\ k.id = i.id
                    /\ k.current_stock = i.current_stock - q
                    /\ k.current_stock < 0
               /\ \E m \in stock_movements' \ stock_movements :
                    m.movement_type = "OUT" /\ m.item_id = i.id /\ m.quantity = q)

\* C14 witness: an item whose recorded usages exceed the stock it had stands
\* with negative stock, the OUT movements of the usages in the ledger.
C14_Witness ==
  \E i \in inventory_items :
    /\ i.current_stock < 0
    /\ i.current_stock =
         created_stock[i.id] - SumQty({m \in stock_movements :
                                         m.item_id = i.id /\ m.movement_type = "OUT"})
    /\ \E ji \in job_items : ji.item_id = i.id /\ ji.quantity_used > created_stock[i.id]

\* Letters equal up to case.
C15_SameLetter(c, d) == c = d \/ {c, d} \in {{"a", "A"}, {"b", "B"}}

\* Text q occurs in text f, case ignored.
C15_Occurs(q, f) ==
  \E k \in 0..(Len(f) - Len(q)) :
    \A n \in 1..Len(q) : C15_SameLetter(q[n], f[k + n])

\* The three conditions of list_items on one fetched row.
C15_Selected(item) ==
  /\ \/ table.searchQuery = <<>>
     \/ \E f \in {item.name} \cup item.description \cup item.sku \cup item.supplier :
          C15_Occurs(table.searchQuery, f)
  /\ table.categoryFilter = "all" \/ item.categories = {table.categoryFilter}
  /\ CASE table.stockFilter = "low" -> item.current_stock <= item.min_stock_level
       [] table.stockFilter = "out" -> item.current_stock = 0
       [] OTHER -> TRUE

\* C15: the rows the table shows are exactly the fetched rows that satisfy
\* the search, category and stock conditions together, in fetched order.
C15_ExactlySelected ==
  LET idx == {k \in 1..Len(table.items) : C15_Selected(table.items[k])}
  IN /\ Len(table.filteredItems) = Cardinality(idx)
     /\ \A n \in 1..Len(table.filteredItems) :
          table.filteredItems[n] =
            table.items[CHOOSE k \in idx : Cardinality({m \in idx : m < k}) = n - 1]

\* C15 witness: with all three filters set, one fetched row is shown and
\* another, overdrawn and so low but not out of stock, is left out.
C15_Witness ==
  /\ table.searchQuery # <<>>
  /\ table.categoryFilter # "all"
  /\ table.stockFilter = "out"
  /\ Len(table.filteredItems) = 1
  /\ Len(table.items) = 2
  /\ \E k \in 1..2 : table.items[k].current_stock < 0

\* C16: whenever the three filters are again what they were when the rows
\* were first shown, the rows shown are the same rows in the same order, and
\* the fetched rows are as they were fetched, whatever was queried in between.
C16_SameQuerySameResult ==
  LET first == first_table.state
  IN /\ table.items = first.items
     /\ (/\ table.searchQuery = first.searchQuery
         /\ table.categoryFilter = first.categoryFilter
         /\ table.stockFilter = first.stockFilter)
        => table.filteredItems = first.filteredItems

\* C16 witness: the filters narrowed the rows shown and were then set back;
\* every fetched row is shown again.
C16_Witness ==
  /\ first_table.narrowed
  /\ table.searchQuery = first_table.state.searchQuery
  /\ table.categoryFilter = first_table.state.categoryFilter
  /\ table.stockFilter = first_table.state.stockFilter
  /\ table.filteredItems # <<>>

\* A text that is empty or made of white space only.
C17_Blank(name) == \A k \in 1..Len(name) : name[k] = " "

C18_CreateStep ==
  LET created == {i \in inventory_items' : i.id > item_seq}
  IN \A i \in created :
       created_stock'[i.id] > 0 =>
         \E m \in stock_movements' \ stock_movements :
           m.movement_type = "IN" /\ m.item_id = i.id

C18_NoPartialWrite == [][C18_CreateStep]_vars

\* C19: a creation through the dialog that fails, in particular one rejected
\* after the trigger created a pouch for it, writes no item row and leaves
\* no pouch behind: the item rows and the pouch rows are as before, and the
\* failure is notified.
C19_FailedStep ==
  LET rolled_back == {n \in DOMAIN pouch_numbers_issued' \ DOMAIN pouch_numbers_issued :
                        ~pouch_numbers_issued'[n]}
  IN rolled_back # {} \/ (toast' = "Error" /\ toast # "Error") =>
       /\ inventory_items' = inventory_items
       /\ pouches' = pouches
       /\ item_seq' = item_seq
       /\ toast' = "Error"

C19_FailsAtomically == [][C19_FailedStep]_vars

\* C19 witness: with no pouch left, a creation was rejected for its SKU after
\* the trigger had created a pouch; the pouch is not there and the failure
\* was notified.
C19_Witness ==
  /\ toast = "Error"
  /\ pouches = {}
  /\ inventory_items # {}
  /\ \E n \in DOMAIN pouch_numbers_issued : ~pouch_numbers_issued[n]

\* The active items bound to pouch p.
C20_ActiveOccupancy(p) ==
  Cardinality({i \in inventory_items : i.pouch_id = p /\ i.is_active})

\* C20: the allocator counts active items only: a pouch bound to 10 items of
\* which one at least is inactive, and which is the lowest-numbered pouch
\* with fewer than 10 active items, is the pouch the next creation with
\* pouch unset is bound to.
C20_InactiveNotCounted ==
  \A p \in pouches :
    /\ Occupancy(p, inventory_items) = PouchCapacity
    /\ C20_ActiveOccupancy(p) < PouchCapacity
    /\ \A q \in pouches : q < p => C20_ActiveOccupancy(q) >= PouchCapacity
    => ENABLED (/\ InsertItem(<<"a">>, NULL, NULL, NULL_TEXT, 0)
                /\ \E i \in inventory_items' : i.id = item_seq + 1 /\ i.pouch_id = p)

\* An insertion with pouch p supplied binds the new item to p and creates no
\* pouch, and can do nothing else.
C21_SuppliedKept ==
  \A p \in pouches :
    /\ ENABLED (/\ InsertItem(<<"a">>, NULL, p, NULL_TEXT, 0)
                /\ \E i \in inventory_items' : i.id = item_seq + 1 /\ i.pouch_id = p
                /\ pouches' = pouches)
    /\ ~ENABLED (/\ InsertItem(<<"a">>, NULL, p, NULL_TEXT, 0)
                 /\ \/ pouches' # pouches
                    \/ \E i \in inventory_items' : i.id = item_seq + 1 /\ i.pouch_id # p)

\* No step re-binds an item that exists before and after it: its pouch_id is
\* as before, or NULL if its pouch was deleted in the step, and an unassigned
\* item stays unassigned.
C21_BindingStep ==
  \A i \in inventory_items : \A j \in inventory_items' :
    j.id = i.id =>
      j.pouch_id = IF i.pouch_id \in pouches' THEN i.pouch_id ELSE NULL

\* C21: pouches are assigned when an item is inserted and never afterwards:
\* a supplied pouch is kept and no pouch created for it, and later
\* insertions, usages, updates and pouch deletions re-bind no existing item.
C21_AssignedAtCreationOnly == []C21_SuppliedKept /\ [][C21_BindingStep]_vars

\* C21 witness: an item whose pouch was deleted is unassigned while a pouch
\* with room stands, an item was placed by hand in a pouch that is not the
\* lowest-numbered one, and items were used and deactivated since.
C21_Witness ==
  /\ \E i \in inventory_items : i.pouch_id = NULL
  /\ \E p \in pouches : HasSpace(p, inventory_items)
  /\ \E i \in inventory_items, p \in pouches : i.pouch_id # NULL /\ p < i.pouch_id
  /\ \E i \in inventory_items : ~i.is_active
  /\ job_items # {}

\* C22: the dialog submitted with a name, a category and no SKU entered
\* always creates the item, however many items without SKU there are.
C22_NoSkuAccepted ==
  ENABLED (handleSubmit(<<"a">>, 1, "", 0) /\ item_seq' = item_seq + 1)

\* The store rejected a request of the add-item dialog's save in this step:
\* the item row (the failure is notified), or the initial-stock movement of
\* an item row that was written with stock.
C23_ItemSaveRejected ==
  \/ toast' = "Error" /\ toast # "Error" /\ item_dialog.open
  \/ /\ item_seq' = item_seq + 1
     /\ created_stock'[item_seq'] > 0
     /\ stock_movements' = stock_movements

\* The category dialog's save failed in this step.
C23_CategorySaveRejected ==
  toast' = "Error" /\ toast # "Error" /\ category_dialog.dialogOpen
  /\ ~item_dialog.open

\* C23: a step in which the store rejects a save of the add-item dialog or
\* of the category dialog notifies the failure and leaves both dialogs as
\* they were: open, with the values entered and the category being edited.
C23_RejectedStep ==
  C23_ItemSaveRejected \/ C23_CategorySaveRejected =>
    /\ toast' = "Error"
    /\ item_dialog' = item_dialog
    /\ category_dialog' = category_dialog

C23_FormKeptOnFailure == [][C23_RejectedStep]_vars

\* C24: each item's current_stock is the stock it was created with minus
\* the quantities of the OUT movements recorded for it, also after job items
\* and repair jobs were deleted.
C24_StockMatchesLedger ==
  \A i \in inventory_items :
    i.current_stock =
      created_stock[i.id]
        - SumQty({m \in stock_movements :
                    m.item_id = i.id /\ m.movement_type = "OUT"})

\* C24 witness: an item was used, then the job item of the usage and the
\* repair job were deleted; the stock stays reduced and the movement stays.
C24_Witness ==
  /\ job_item_seq > 0 /\ job_items = {}
  /\ job_seq > 0 /\ repair_jobs = {}
  /\ \E i \in inventory_items, m \in stock_movements :
       /\ m.item_id = i.id /\ m.movement_type = "OUT"
       /\ i.current_stock < created_stock[i.id]

\* C25: every stock_movements row references an item that exists.
C25_MovementsReferenced ==
  \A m \in stock_movements : \E i \in inventory_items : i.id = m.item_id

\* C25 witness: the dialog created an item with stock, whose movement with
\* the empty item reference was not written, an item that had a movement was
\* deleted with it, and the movement of another item stands.
C25_Witness ==
  /\ \E id \in DOMAIN created_stock : created_stock[id] > 0
  /\ \A m \in stock_movements : m.movement_type = "OUT"
  /\ Cardinality(stock_movements) = 1
  /\ movement_seq = MaxUsages
  /\ Cardinality(inventory_items) < item_seq

\* The label of the badge of a fetched row.
C26_Label(item) == getStockStatus(item.current_stock, item.min_stock_level).label

\* Whether a fetched row, alone in the table, passes the stock filter f.
C26_Passes(item, f) == filterItems(<<item>>, <<>>, "all", f) = <<item>>

\* C26: for every fetched row, the label is 'Out of Stock' exactly when the
\* row passes the 'out' filter; the row passes the 'low' filter exactly when
\* it is labelled 'Low Stock', or 'Out of Stock' with current_stock <=
\* min_stock_level; a row with negative stock is neither labelled 'Out of
\* Stock' nor passes the 'out' filter.
C26_LabelAgreesWithFilters ==
  \A k \in 1..Len(table.items) :
    LET item == table.items[k]
    IN /\ (C26_Label(item) = "Out of Stock") <=> C26_Passes(item, "out")
       /\ C26_Passes(item, "low") <=>
            \/ C26_Label(item) = "Low Stock"
            \/ /\ C26_Label(item) = "Out of Stock"
               /\ item.current_stock <= item.min_stock_level
       /\ item.current_stock < 0 =>
            /\ C26_Label(item) # "Out of Stock"
            /\ ~C26_Passes(item, "out")

\* C26 witness: the 'out' filter is on over an overdrawn row and a row out
\* of stock above its minimum; only the second is shown.
C26_Witness ==
  /\ table.stockFilter = "out"
  /\ table.searchQuery = <<>> /\ table.categoryFilter = "all"
  /\ Len(table.items) = 2 /\ Len(table.filteredItems) = 1
  /\ \E k \in 1..2 : table.items[k].current_stock < 0
  /\ table.filteredItems[1].min_stock_level < 0
  /\ C26_Label(table.filteredItems[1]) = "Out of Stock"
====
